---- MODULE Spec2Model ----
(***************************************************************************)
(* PromptToCommand (BourguibaGPT): natural-language request -> one shell   *)
(* command -> validation -> confirmation-gated execution -> history.       *)
(*                                                                         *)
(* The repository holds three variants of the program:                     *)
(*   "src"    src/src/bourguibagpt/main.py + validators.py  (v2.0.0)       *)
(*   "gpt"    src/bourguibaGPT/main.py                      (v1.0.0)       *)
(*   "legacy" src/bourguiba/bourguiba.py                    (T5 variant)   *)
(*                                                                         *)
(* Text is modelled as a sequence of one-character strings, so that the    *)
(* string operations and regular expressions of the code are computed      *)
(* character by character.                                                 *)
(***************************************************************************)
EXTENDS Integers, Sequences, FiniteSets, TLC

(***************************************************************************)
(* Bounds of the model                                                     *)
(***************************************************************************)
\* longest generated command text of the validator specification
MaxCmdLen == 4
\* largest max_retries a generator is constructed with
MaxRetriesBound == 3
\* most records a session's history grows to
MaxHistory == 2
\* most commands a session hands to the shell
MaxExec == 1
\* the configured timeout (self.timeout), in ticks of the clock
TimeoutTicks == 2
\* most RAM a machine has, in GB
MaxRam == 64

(***************************************************************************)
(* Characters and character classes                                        *)
(***************************************************************************)
LowerLetters ==
    {"a", "b", "c", "d", "e", "f", "g", "h", "i", "j", "k", "l", "m",
     "n", "o", "p", "q", "r", "s", "t", "u", "v", "w", "x", "y", "z"}

UpperLetters ==
    {"A", "B", "C", "D", "E", "F", "G", "H", "I", "J", "K", "L", "M",
     "N", "O", "P", "Q", "R", "S", "T", "U", "V", "W", "X", "Y", "Z"}

Digits == {"0", "1", "2", "3", "4", "5", "6", "7", "8", "9"}

\* the grave accent U+0060, which a string of this language cannot hold
Backtick == "BACKTICK"

\* str.isspace / the regex class \s, within the ASCII characters of the model
Whitespace == {" ", "\t", "\n"}

\* the regex class \w, within the ASCII characters of the model
WordChars == LowerLetters \cup UpperLetters \cup Digits \cup {"_"}

\* [a-zA-Z0-9_\-./:] of safe_pattern
SafeArgChars == LowerLetters \cup UpperLetters \cup Digits \cup {"_", "-", ".", "/", ":"}

\* [\w\./-] of the command structure pattern
StructChars == WordChars \cup {".", "/", "-"}

(***************************************************************************)
(* Python string operations                                                *)
(***************************************************************************)
RECURSIVE LStrip(_)
LStrip(s) ==
    IF s # << >> /\ Head(s) \in Whitespace THEN LStrip(Tail(s)) ELSE s

RECURSIVE RStrip(_)
RStrip(s) ==
    IF s # << >> /\ s[Len(s)] \in Whitespace
    THEN RStrip(SubSeq(s, 1, Len(s) - 1))
    ELSE s

\* str.strip()
Strip(s) == RStrip(LStrip(s))

\* s[i:].startswith(sub), i counted from 1
StartsWithAt(s, i, sub) ==
    /\ i + Len(sub) - 1 <= Len(s)
    /\ SubSeq(s, i, i + Len(sub) - 1) = sub

\* str.startswith
StartsWith(s, sub) == StartsWithAt(s, 1, sub)

\* str.endswith
EndsWith(s, sub) ==
    /\ Len(sub) <= Len(s)
    /\ SubSeq(s, Len(s) - Len(sub) + 1, Len(s)) = sub

\* sub in s
Contains(s, sub) == \E i \in 1..(Len(s) + 1) : StartsWithAt(s, i, sub)

\* str.replace(sub, rep) for a non-empty sub: left to right, non-overlapping
RECURSIVE Replace(_, _, _)
Replace(s, sub, rep) ==
    IF s = << >> THEN << >>
    ELSE IF StartsWith(s, sub)
         THEN rep \o Replace(SubSeq(s, Len(sub) + 1, Len(s)), sub, rep)
         ELSE <<Head(s)>> \o Replace(Tail(s), sub, rep)

\* 0 when c does not occur in s, else the first position of c
RECURSIVE IndexOf(_, _, _)
IndexOf(s, c, i) ==
    IF i > Len(s) THEN 0
    ELSE IF s[i] = c THEN i
    ELSE IndexOf(s, c, i + 1)

\* str.splitlines(): no empty last line after a final line break
RECURSIVE SplitLines(_)
SplitLines(s) ==
    IF s = << >> THEN << >>
    ELSE LET k == IndexOf(s, "\n", 1)
         IN  IF k = 0 THEN <<s>>
             ELSE <<SubSeq(s, 1, k - 1)>> \o SplitLines(SubSeq(s, k + 1, Len(s)))

\* the length of the longest prefix of s without whitespace
RECURSIVE TokenLen(_)
TokenLen(s) ==
    IF s = << >> \/ Head(s) \in Whitespace THEN 0 ELSE 1 + TokenLen(Tail(s))

\* str.split(): the whitespace-separated tokens
RECURSIVE Split(_)
Split(s) ==
    LET t == LStrip(s)
    IN  IF t = << >> THEN << >>
        ELSE LET n == TokenLen(t)
             IN  <<SubSeq(t, 1, n)>> \o Split(SubSeq(t, n + 1, Len(t)))

\* sep.join(parts)
RECURSIVE Join(_, _)
Join(parts, sep) ==
    IF parts = << >> THEN << >>
    ELSE IF Len(parts) = 1 THEN parts[1]
    ELSE parts[1] \o sep \o Join(Tail(parts), sep)

\* str.split(sub)[0]: the text before the first occurrence of sub
RECURSIVE BeforeFirst(_, _)
BeforeFirst(s, sub) ==
    IF s = << >> \/ StartsWith(s, sub) THEN << >>
    ELSE <<Head(s)>> \o BeforeFirst(Tail(s), sub)

LowerChar(c) ==
    CASE c = "A" -> "a" [] c = "B" -> "b" [] c = "C" -> "c" [] c = "D" -> "d"
      [] c = "E" -> "e" [] c = "F" -> "f" [] c = "G" -> "g" [] c = "H" -> "h"
      [] c = "I" -> "i" [] c = "J" -> "j" [] c = "K" -> "k" [] c = "L" -> "l"
      [] c = "M" -> "m" [] c = "N" -> "n" [] c = "O" -> "o" [] c = "P" -> "p"
      [] c = "Q" -> "q" [] c = "R" -> "r" [] c = "S" -> "s" [] c = "T" -> "t"
      [] c = "U" -> "u" [] c = "V" -> "v" [] c = "W" -> "w" [] c = "X" -> "x"
      [] c = "Y" -> "y" [] c = "Z" -> "z" [] OTHER -> c

\* str.lower()
Lower(s) == [i \in 1..Len(s) |-> LowerChar(s[i])]

(***************************************************************************)
(* Named texts                                                             *)
(***************************************************************************)
Str_empty == << >>
Str_blank == <<" ", " ">>
Str_ls == <<"l", "s">>
Str_ls_la == <<"l", "s", " ", "-", "l", "a">>
Str_rm_rf_root == <<"r", "m", " ", "-", "r", "f", " ", "/">>
Str_foo == <<"f", "o", "o">>
Str_sudo == <<"s", "u", "d", "o">>
Str_sudo_ls == <<"s", "u", "d", "o", " ", "l", "s">>
Str_multi ==
    <<"l", "s", ";", " ", "c", "a", "t", " ", "/", "e", "t", "c", "/",
      "p", "a", "s", "s", "w", "d">>
Str_bash_ls == <<"b", "a", "s", "h", "\n", "l", "s">>
Str_fence == <<Backtick, Backtick, Backtick>>
Str_fence_shell == <<Backtick, Backtick, Backtick, "s", "h", "e", "l", "l">>
Str_mkdir == <<"m", "k", "d", "i", "r">>
Str_rm == <<"r", "m">>
Str_docker_run == <<"d", "o", "c", "k", "e", "r", " ", "r", "u", "n">>
Str_dash_u == <<"-", "u">>
Str_create_folder ==
    <<"C", "r", "e", "a", "t", "e", " ", "a", " ", "f", "o", "l", "d", "e", "r">>
Str_force == <<" ", "-", "F", "o", "r", "c", "e">>

\* None, as a value comparable with every text: no text holds this atom
None == <<"None">>

(***************************************************************************)
(* validators.py: CommandValidator                                         *)
(***************************************************************************)
SAFE_COMMANDS ==
    { <<"m", "k", "d", "i", "r">>, <<"l", "s">>, <<"c", "d">>,
      <<"p", "w", "d">>, <<"c", "p">>, <<"m", "v">>,
      <<"r", "m">>, <<"t", "o", "u", "c", "h">>, <<"c", "a", "t">>,
      <<"e", "c", "h", "o">>, <<"g", "r", "e", "p">>, <<"f", "i", "n", "d">>,
      <<"h", "e", "a", "d">>, <<"t", "a", "i", "l">>, <<"c", "h", "m", "o", "d">>,
      <<"c", "h", "o", "w", "n">>, <<"l", "n">>, <<"p", "s">>,
      <<"k", "i", "l", "l">>, <<"d", "f">>, <<"d", "u">>,
      <<"t", "a", "r">>, <<"g", "z", "i", "p">>, <<"g", "u", "n", "z", "i", "p">>,
      <<"b", "z", "i", "p", "2">>, <<"b", "u", "n", "z", "i", "p", "2">>, <<"z", "i", "p">>,
      <<"u", "n", "z", "i", "p">>, <<"p", "i", "n", "g">>, <<"c", "u", "r", "l">>,
      <<"w", "g", "e", "t">>, <<"s", "c", "p">>, <<"s", "s", "h">>,
      <<"r", "s", "y", "n", "c">> }

\* MatchSafePattern with the character class widened to any character
MatchSafePattern_AnyChar(arg) == arg # << >>

\* re.match(r'^[a-zA-Z0-9_\-./:]+$', arg): $ also matches before a final line break
MatchSafePattern(arg) ==
    LET body == IF arg # << >> /\ arg[Len(arg)] = "\n"
                THEN SubSeq(arg, 1, Len(arg) - 1) ELSE arg
    IN  /\ body # << >>
        /\ \A i \in 1..Len(body) : body[i] \in SafeArgChars

\* the first argument of parts[1:] that fails safe_pattern, 0 when none does
RECURSIVE FirstBadArg(_, _)
FirstBadArg(parts, i) ==
    IF i > Len(parts) THEN 0
    ELSE IF ~MatchSafePattern(parts[i]) THEN i
    ELSE FirstBadArg(parts, i + 1)

\* Validate with a leading sudo token dropped before the whitelist check
Validate_SudoStripped(command) ==
    IF command = << >> \/ Strip(command) = << >>
    THEN [ok |-> FALSE, error |-> "Empty command", token |-> << >>]
    ELSE LET all == Split(Strip(command))
             parts == IF all[1] = Str_sudo /\ Len(all) > 1 THEN Tail(all) ELSE all
             base_cmd == parts[1]
             bad == FirstBadArg(parts, 2)
         IN  IF base_cmd \notin SAFE_COMMANDS
             THEN [ok |-> FALSE, error |-> "not in allowed list", token |-> base_cmd]
             ELSE IF bad # 0
                  THEN [ok |-> FALSE, error |-> "Invalid argument format",
                        token |-> parts[bad]]
                  ELSE [ok |-> TRUE, error |-> "", token |-> << >>]

\* CommandValidator.validate: (is_valid, error_message); the message is kept as
\* its kind and the token it quotes
Validate(command) ==
    IF command = << >> \/ Strip(command) = << >>
    THEN [ok |-> FALSE, error |-> "Empty command", token |-> << >>]
    ELSE LET parts == Split(Strip(command))
             base_cmd == parts[1]
             bad == FirstBadArg(parts, 2)
         IN  IF base_cmd \notin SAFE_COMMANDS
             THEN [ok |-> FALSE, error |-> "not in allowed list", token |-> base_cmd]
             ELSE IF bad # 0
                  THEN [ok |-> FALSE, error |-> "Invalid argument format",
                        token |-> parts[bad]]
                  ELSE [ok |-> TRUE, error |-> "", token |-> << >>]

(***************************************************************************)
(* bourguibaGPT/main.py: extract_command and validate_command              *)
(***************************************************************************)
Str_dash_rf == <<"-", "r", "f">>
Str_mkfs == <<"m", "k", "f", "s">>
Str_dd == <<"d", "d">>
Str_if_eq == <<"i", "f", "=">>
Str_dev == <<"/", "d", "e", "v", "/">>
Str_fork_left == <<":", "{", " ", ":">>
Str_fork_right == <<":", "&", " ", "}", ";", ":">>
Str_think == <<"<", "t", "h", "i", "n", "k", ">">>
Str_and_and == <<"&", "&">>
Str_or_or == <<"|", "|">>

\* re.fullmatch(r'^[\w\./-]+(?:\s+[\w\./-]+)*$', s): tokens of [\w./-] separated
\* by whitespace, a token first and last
FullMatchCommandPattern(s) ==
    /\ s # << >>
    /\ s[1] \in StructChars
    /\ s[Len(s)] \in StructChars
    /\ \A i \in 1..Len(s) : s[i] \in StructChars \cup Whitespace

\* re.match of the same pattern: $ also matches before a final line break
MatchCommandPattern(s) ==
    \/ FullMatchCommandPattern(s)
    \/ /\ s # << >>
       /\ s[Len(s)] = "\n"
       /\ FullMatchCommandPattern(SubSeq(s, 1, Len(s) - 1))

\* the lines of the text, each stripped, the blank ones dropped
RECURSIVE StrippedLines(_)
StrippedLines(lines) ==
    IF lines = << >> THEN << >>
    ELSE IF Strip(Head(lines)) # << >>
         THEN <<Strip(Head(lines))>> \o StrippedLines(Tail(lines))
         ELSE StrippedLines(Tail(lines))

\* the two special cases applied to the selected line
TrimSelectedLine(line) ==
    LET l1 == IF StartsWith(line, Str_mkdir) /\ Contains(line, Str_rm)
              THEN Strip(BeforeFirst(line, Str_rm)) ELSE line
    IN  IF StartsWith(l1, Str_docker_run) /\ EndsWith(l1, Str_dash_u)
        THEN Strip(SubSeq(l1, 1, Len(l1) - 2)) ELSE l1

\* for line in reversed(lines): the last line of the command shape
RECURSIVE LastMatchingLine(_, _)
LastMatchingLine(lines, i) ==
    IF i = 0 THEN None
    ELSE IF FullMatchCommandPattern(lines[i]) THEN TrimSelectedLine(lines[i])
    ELSE LastMatchingLine(lines, i - 1)

extract_command(generated_text) ==
    LET lines == StrippedLines(SplitLines(generated_text))
    IN  LastMatchingLine(lines, Len(lines))

\* the first position from i on that holds no whitespace (Len(s) + 1 when none)
RECURSIVE NextNonSpace(_, _)
NextNonSpace(s, i) ==
    IF i > Len(s) \/ s[i] \notin Whitespace THEN i ELSE NextNonSpace(s, i + 1)

\* re.search(r'rm\s+-rf\s+[/\*]', s)
SearchRmRf(s) ==
    \E i \in 1..Len(s) :
        /\ StartsWithAt(s, i, Str_rm)
        /\ LET j == NextNonSpace(s, i + 2)
           IN  /\ j > i + 2
               /\ StartsWithAt(s, j, Str_dash_rf)
               /\ LET k == NextNonSpace(s, j + 3)
                  IN  /\ k > j + 3
                      /\ k <= Len(s)
                      /\ s[k] \in {"/", "*"}

\* re.search(r':(){ :|:& };:', s): the regex is an alternation of two literals
\* (the group () is empty, { is no quantifier here)
SearchForkBomb(s) == Contains(s, Str_fork_left) \/ Contains(s, Str_fork_right)

\* re.search(r'>[^>]\s*/dev/', s)
SearchDevWrite(s) ==
    \E i \in 1..Len(s) :
        /\ s[i] = ">"
        /\ i + 1 <= Len(s)
        /\ s[i + 1] # ">"
        /\ StartsWithAt(s, NextNonSpace(s, i + 2), Str_dev)

\* re.search(r'dd\s+if=', s)
SearchDd(s) ==
    \E i \in 1..Len(s) :
        /\ StartsWithAt(s, i, Str_dd)
        /\ LET j == NextNonSpace(s, i + 2)
           IN  j > i + 2 /\ StartsWithAt(s, j, Str_if_eq)

\* any(re.search(pattern, command) for pattern in dangerous_patterns)
DangerousPatternFound(command) ==
    \/ SearchRmRf(command)
    \/ SearchForkBomb(command)
    \/ SearchDevWrite(command)
    \/ Contains(command, Str_mkfs)
    \/ SearchDd(command)

\* any(char in command for char in [';', '&&', '||', '`'])
HasSeparator(command) ==
    \/ Contains(command, <<";">>)
    \/ Contains(command, Str_and_and)
    \/ Contains(command, Str_or_or)
    \/ Contains(command, <<Backtick>>)

validate_command(command) ==
    IF command = << >> \/ Len(Strip(command)) = 0 THEN FALSE
    ELSE IF ~MatchCommandPattern(command) THEN FALSE
    ELSE IF DangerousPatternFound(command) THEN FALSE
    ELSE IF HasSeparator(command) THEN FALSE
    ELSE IF \/ Strip(command) = Str_think
            \/ (StartsWith(command, <<"<">>) /\ EndsWith(command, <<">">>))
         THEN FALSE
    ELSE TRUE

(***************************************************************************)
(* src/bourguibagpt/main.py: the clean-up of the backend text              *)
(***************************************************************************)
ShellNames == { <<"b", "a", "s", "h">>, <<"z", "s", "h">>, <<"s", "h">> }

\* [line.strip() for line in command.splitlines()] without the shell names
RECURSIVE CleanLines(_)
CleanLines(lines) ==
    IF lines = << >> THEN << >>
    ELSE LET line == Strip(Head(lines))
         IN  IF Lower(line) \in ShellNames
             THEN CleanLines(Tail(lines))
             ELSE <<line>> \o CleanLines(Tail(lines))

\* _call_ollama, lines 387-391: the command made of result["response"]
CleanResponse(text) ==
    LET c1 == Strip(text)
        c2 == Strip(Replace(Replace(c1, Str_fence_shell, << >>), Str_fence, << >>))
    IN  Strip(Join(CleanLines(SplitLines(c2)), <<" ">>))

(***************************************************************************)
(* bourguiba/bourguiba.py: clean_command                                   *)
(***************************************************************************)
Platforms == {"Linux", "Darwin", "Windows", "Other"}

clean_command(command, system_platform) ==
    LET c == Strip(command)
    IN  IF system_platform \in {"Linux", "Darwin"} /\ StartsWith(c, Str_create_folder)
        THEN Replace(c, Str_create_folder, Str_mkdir)
        ELSE IF system_platform = "Windows" /\ StartsWith(c, Str_create_folder)
        THEN Replace(c, Str_create_folder, Str_mkdir) \o Str_force
        ELSE c

(***************************************************************************)
(* State                                                                   *)
(***************************************************************************)
VARIABLES
    variant,          \* which program of the repository runs
    max_retries,      \* ShellCommandGenerator.max_retries
    auto_execute,     \* ShellCommandGenerator.auto_execute
    system_platform,  \* platform.system()
    pc,               \* where the interactive loop stands
    prompt,           \* the argument of the running generate_command call
    attempt,          \* the loop variable of the retry loop
    calls,            \* backend calls made by the last generate_command call
    all_failed,       \* whether every one of them failed
    sleeps,           \* time.sleep(1) calls of the last generate_command call
    gen_appends,      \* records the last generate_command call appended
    gen_saves,        \* _save_history calls of the last generate_command call
    last_resp,        \* the backend response the last generate_command call ended with
    ret,              \* what the last generate_command call returned
    command_history,  \* ShellCommandGenerator.command_history
    history_file,     \* the content of the history file
    shell,            \* the strings handed to subprocess.run(shell=True)
    exec_ret,         \* what execute_command returned in the last turn of the loop
    vcmd,             \* the argument of the validators (validator specification)
    verdict,          \* their verdicts on it
    blocked,          \* the blocking call the program is inside, if any
    config_file,      \* the content of CONFIG_FILE (settings.json)
    model_name,       \* the model main() constructs the generator with
    launch,           \* the options of the last start of main() and what it did
    available_ram_gb, \* the argument of get_recommended_model
    recommended       \* what it returned

vars ==
    <<variant, max_retries, auto_execute, system_platform, pc, prompt, attempt,
      calls, all_failed, sleeps, gen_appends, gen_saves, last_resp, ret,
      command_history, history_file, shell, exec_ret, vcmd, verdict, blocked,
      config_file, model_name, launch, available_ram_gb, recommended>>

session_vars ==
    <<variant, max_retries, auto_execute, system_platform, pc, prompt, attempt,
      calls, all_failed, sleeps, gen_appends, gen_saves, last_resp, ret,
      command_history, history_file, shell, exec_ret, blocked,
      config_file, model_name, launch, available_ram_gb, recommended>>

(***************************************************************************)
(* config.py: MODEL_CONFIG, the recommendation and the preferences         *)
(***************************************************************************)
\* MODEL_CONFIG[model_size]["ram_threshold"], in GB
ram_threshold(model_size) ==
    CASE model_size = "tiny" -> 6
      [] model_size = "medium" -> 10
      [] model_size = "large" -> 18

\* MODEL_CONFIG[...]["model_name"] of tiny, medium and large
ModelNames == {"codegemma:2b", "qwen2.5-coder:7b", "qwen2.5:14b"}

\* the default of --model, and of the constructor's model_name
DefaultModel == "mistral-openorca:7b"

\* get_recommended_model(available_ram_gb): the loop over tiny, medium and
\* large returns the first size whose threshold the RAM reaches, and tiny is
\* the fallback
get_recommended_model(ram) ==
    IF ram >= ram_threshold("tiny") THEN "tiny"
    ELSE IF ram >= ram_threshold("medium") THEN "medium"
    ELSE IF ram >= ram_threshold("large") THEN "large"
    ELSE "tiny"

\* load_user_preferences().get("preferred_model"): the saved name if the file
\* exists and names a model of MODEL_CONFIG, None ("none" here) if it
\* returns {}
SavedModel(file) ==
    IF file.state = "written" /\ file.preferred_model \in ModelNames
    THEN file.preferred_model
    ELSE "none"

(***************************************************************************)
(* The validators as pure functions                                        *)
(***************************************************************************)
\* the characters the generated command texts are made of
CmdAlphabet == {"l", "s", " ", "/", ";", "&", "|", Backtick}

\* command texts of interest beside the generated ones
SampleCommands ==
    { Str_ls_la, Str_rm_rf_root, Str_foo, Str_sudo_ls, Str_multi, Str_bash_ls,
      Str_blank, Str_think, Str_sudo \o <<" ">> \o Str_foo,
      Str_ls \o <<"\n">>, Str_ls_la \o <<" ">> \o Str_and_and \o <<" ">> \o Str_ls,
      Str_rm \o <<" ">> \o Str_foo, Str_ls \o <<" ", "*">>,
      Str_ls \o <<"\n">> \o Str_ls_la, Str_ls \o <<" ", "|", " ">> \o Str_ls,
      Str_rm \o <<" ", "-", "f", "r", " ", "/">>,
      Str_rm \o <<" ", "-", "r", " ", "-", "f", " ", "/">>,
      Str_rm \o <<" ", "-", "r", " ", "/">> }

CommandTexts ==
    SampleCommands \cup UNION { [1..n -> CmdAlphabet] : n \in 0..MaxCmdLen }

NoVerdict == [run |-> FALSE]

\* execute_command has not been called in this turn of the loop
NotCalled == [value |-> "not_called"]

\* the program is inside no blocking call; else: requests.post ("backend") or
\* subprocess.run ("child"), whether the other side never answers, the time
\* spent waiting, and the arguments the call was made with
NotBlocked == [on |-> "none", hung |-> FALSE, waited |-> 0, call |-> << >>]

\* "sudo " + c
WithSudo(c) == Str_sudo \o <<" ">> \o c

InitValidate ==
    /\ vcmd \in CommandTexts
    /\ verdict = NoVerdict
    /\ blocked = NotBlocked
    /\ config_file = [state |-> "absent"]
    /\ model_name = DefaultModel
    /\ launch = [started |-> FALSE]
    /\ available_ram_gb = 0
    /\ recommended = "not_called"
    /\ variant = "src"
    /\ max_retries = 1
    /\ auto_execute = FALSE
    /\ system_platform = "Linux"
    /\ pc = "validators"
    /\ prompt = ""
    /\ attempt = 0
    /\ calls = 0
    /\ all_failed = TRUE
    /\ sleeps = 0
    /\ gen_appends = 0
    /\ gen_saves = 0
    /\ last_resp = [kind |-> "none"]
    /\ ret = [tag |-> "not_called"]
    /\ command_history = << >>
    /\ history_file = [state |-> "absent", records |-> << >>]
    /\ shell = << >>
    /\ exec_ret = NotCalled

\* CommandValidator.validate(c), CommandValidator.validate("sudo " + c) and
\* validate_command(c): neither reads or writes anything but its argument
RunValidators ==
    /\ ~verdict.run
    /\ verdict' = [run |-> TRUE,
                   src |-> Validate(vcmd),
                   src_sudo |-> Validate(WithSudo(vcmd)),
                   gpt |-> validate_command(vcmd)]
    /\ UNCHANGED <<vcmd, session_vars>>

NextValidate == RunValidators

SpecValidate == InitValidate /\ [][NextValidate]_vars

(***************************************************************************)
(* The interactive session                                                 *)
(***************************************************************************)
Variants == {"src", "gpt", "legacy"}

\* what the user asks for; only its blankness is read by the loops
Prompts == {"", "list files"}

Str_fenced_bash == Str_fence \o <<"\n">> \o <<"b", "a", "s", "h">> \o <<"\n">> \o Str_fence

\* texts the backend answers with
BackendTexts ==
    { Str_ls_la, Str_rm_rf_root, Str_foo, Str_multi, Str_empty, Str_blank,
      Str_fenced_bash }

\* requests.post: connection refused, timeout, an HTTP error status, a JSON
\* body without the "response" field, or a body with it
FailureKinds == {"refused", "timeout", "http_error", "malformed"}

Responses ==
    [kind : FailureKinds, text : {<< >>}] \cup [kind : {"text"}, text : BackendTexts]

\* what the model of the T5 variant decodes
LegacyTexts == { Str_ls_la, Str_multi, Str_create_folder \o <<" ", "x">> }

\* what the user types after "execute "
UserCommands == { Str_ls_la, Str_rm_rf_root }

\* the exit status of the spawned process
ExitCodes == {0, 1}

Str_yes == <<"y", "e", "s">>
Str_no == <<"n", "o">>

\* answers Prompt.ask accepts for the confirmation (choices=["yes", "no"])
Answers == {Str_yes, Str_no}

\* what the user types at the confirmation, up to the input that ends the
\* question: an input that is no choice is refused and the question repeated
TypedAnswers ==
    { <<Str_yes>>, <<Str_no>>, <<Str_empty>>, <<<<"Y", "E", "S">>, Str_yes>>,
      <<<<"Y", "e", "s">>, Str_no>> }

\* rich Prompt.ask(choices=choices, default=default): the empty input is the
\* default, an input among the choices is returned, any other input is
\* answered with "Please select one of the available options" and asked again
RECURSIVE PromptAsk(_, _, _)
PromptAsk(typed, choices, default) ==
    IF typed = << >> \/ Head(typed) = Str_empty THEN default
    ELSE IF Head(typed) \in choices THEN Head(typed)
    ELSE PromptAsk(Tail(typed), choices, default)

\* answers Prompt.ask accepts for the rating (choices "1".."5"); two of them
Ratings == {"3", "5"}

\* the whole history is written; open(history_file, 'w') fails; json.dump
\* fails after open truncated the file; the user interrupts json.dump
SaveOutcomes == {"ok", "open_failed", "write_failed", "interrupted"}

NoError == "None"

\* the truth value of an optional text: neither None nor empty
Truthy(text) == text # None /\ text # << >>
NoFeedback == "absent"

\* JSON values as json.dump writes them
JsonNull == <<"null">>
JsonString(text) == <<"string", text>>
JsonBool(b) == IF b THEN <<"true">> ELSE <<"false">>

\* json.dump of one record: an object, its keys in insertion order; the src
\* records hold success and error, and feedback once it was given, the gpt
\* records hold executed
JsonOfRecord(r) ==
    IF "success" \in DOMAIN r
    THEN << <<"prompt", JsonString(r.prompt)>>,
            <<"command", IF r.command = None THEN JsonNull ELSE JsonString(r.command)>>,
            <<"success", JsonBool(r.success)>>,
            <<"error", IF r.error = NoError THEN JsonNull ELSE JsonString(r.error)>> >>
         \o (IF r.feedback = NoFeedback THEN << >>
             ELSE << <<"feedback", JsonString(r.feedback)>> >>)
    ELSE << <<"prompt", JsonString(r.prompt)>>,
            <<"command", JsonString(r.command)>>,
            <<"executed", JsonBool(r.executed)>> >>

\* json.dump(self.command_history, f, indent=2): the list, element by element
JsonDump(history) == [i \in 1..Len(history) |-> JsonOfRecord(history[i])]

HasKey(obj, key) == \E i \in 1..Len(obj) : obj[i][1] = key
ValueOf(obj, key) == obj[CHOOSE i \in 1..Len(obj) : obj[i][1] = key][2]

\* json.load of one object
RecordOfJson(obj) ==
    IF HasKey(obj, "success")
    THEN [prompt |-> ValueOf(obj, "prompt")[2],
          command |-> IF ValueOf(obj, "command")[1] = "null" THEN None
                      ELSE ValueOf(obj, "command")[2],
          success |-> ValueOf(obj, "success")[1] = "true",
          error |-> IF ValueOf(obj, "error")[1] = "null" THEN NoError
                    ELSE ValueOf(obj, "error")[2],
          feedback |-> IF HasKey(obj, "feedback") THEN ValueOf(obj, "feedback")[2]
                       ELSE NoFeedback]
    ELSE [prompt |-> ValueOf(obj, "prompt")[2],
          command |-> ValueOf(obj, "command")[2],
          executed |-> ValueOf(obj, "executed")[1] = "true"]

\* JsonLoad yielding the elements in the reverse order
JsonLoad_Reversed(document) ==
    [i \in 1..Len(document) |-> RecordOfJson(document[Len(document) + 1 - i])]

\* json.load of a list document
JsonLoad(document) == [i \in 1..Len(document) |-> RecordOfJson(document[i])]

\* the content of the history file: none, a complete JSON list, a truncated
\* document, text that is no JSON, or a JSON document that is no list
FileStates == {"absent", "written", "partial", "unparseable", "not_a_list"}

\* command_history after json.load returned something that is no list (an
\* object, a string, a number, null): it has no append
NotAList == << [loaded |-> "not_a_list"] >>

HistoryIsList(history) == history # NotAList

\* SavedFile adding the newest record to what the file holds
SavedFile_LastRecordOnly(history, file, outcome) ==
    CASE outcome = "ok" ->
             [state |-> "written",
              records |-> file.records
                              \o JsonDump(SubSeq(history, Len(history), Len(history)))]
      [] outcome = "open_failed" -> file
      [] OTHER -> [state |-> "partial", records |-> << >>]

\* _save_history: every Exception is caught and logged, the interrupt is not
SavedFile(history, file, outcome) ==
    CASE outcome = "ok" -> [state |-> "written", records |-> JsonDump(history)]
      [] outcome = "open_failed" -> file
      [] OTHER -> [state |-> "partial", records |-> << >>]

\* _load_history: the file is read when it exists, json.load is trusted to
\* return a list, and every exception leaves the empty history
LoadHistory(file) ==
    CASE file.state = "written" -> JsonLoad(file.records)
      [] file.state = "not_a_list" -> NotAList
      [] OTHER -> << >>

\* the max_retries the generator is constructed with: no retry, or the most
RetryChoices == {1, MaxRetriesBound}

Init ==
    /\ variant \in Variants
    /\ max_retries \in (IF variant = "legacy" THEN {1} ELSE RetryChoices)
    /\ auto_execute \in (IF variant = "legacy" THEN {FALSE} ELSE BOOLEAN)
    /\ system_platform \in (IF variant = "legacy" THEN Platforms ELSE {"Linux"})
    /\ pc = "prompt"
    /\ prompt = ""
    /\ attempt = 0
    /\ calls = 0
    /\ all_failed = TRUE
    /\ sleeps = 0
    /\ gen_appends = 0
    /\ gen_saves = 0
    /\ last_resp = [kind |-> "none"]
    /\ ret = [tag |-> "not_called"]
    /\ command_history = << >>
    /\ history_file = [state |-> "absent", records |-> << >>]
    /\ shell = << >>
    /\ exec_ret = NotCalled
    /\ vcmd = << >>
    /\ verdict = NoVerdict
    /\ blocked = NotBlocked
    /\ config_file = [state |-> "absent"]
    /\ model_name = DefaultModel
    /\ launch = [started |-> FALSE]
    /\ available_ram_gb = 0
    /\ recommended = "not_called"

\* the locals of one turn of the loop are gone when the turn ends
ClearLocals ==
    /\ prompt' = ""
    /\ attempt' = 0
    /\ calls' = 0
    /\ all_failed' = TRUE
    /\ sleeps' = 0
    /\ gen_appends' = 0
    /\ gen_saves' = 0
    /\ last_resp' = [kind |-> "none"]
    /\ ret' = [tag |-> "not_called"]

\* the user types exit or quit
Quit ==
    /\ pc = "prompt"
    /\ pc' = "exited"
    /\ exec_ret' = NotCalled
    /\ UNCHANGED <<config_file, model_name, launch, available_ram_gb, recommended,
                   variant, max_retries, auto_execute, system_platform, prompt,
                   attempt, calls, all_failed, sleeps, gen_appends, gen_saves,
                   last_resp, ret, command_history, history_file, shell,
                   vcmd, verdict, blocked>>

\* run(): any other input goes to generate_command; the src loop skips a blank one
StartGenerate(p) ==
    /\ pc = "prompt"
    /\ variant \in {"src", "gpt"}
    /\ variant = "src" => p # ""
    /\ Len(command_history) < MaxHistory
    /\ pc' = "invoking"
    /\ prompt' = p
    /\ attempt' = 0
    /\ calls' = 0
    /\ all_failed' = TRUE
    /\ sleeps' = 0
    /\ gen_appends' = 0
    /\ gen_saves' = 0
    /\ last_resp' = [kind |-> "none"]
    /\ ret' = [tag |-> "running"]
    /\ exec_ret' = NotCalled
    /\ UNCHANGED <<config_file, model_name, launch, available_ram_gb, recommended,
                   variant, max_retries, auto_execute, system_platform,
                   command_history, history_file, shell, vcmd, verdict, blocked>>

(***************************************************************************)
(* src/bourguibagpt/main.py: generate_command and _call_ollama             *)
(***************************************************************************)
SuccessRecord(p, command) ==
    [prompt |-> p, command |-> command, success |-> TRUE, error |-> NoError,
     feedback |-> NoFeedback]

ErrorRecord(p, message) ==
    [prompt |-> p, command |-> None, success |-> FALSE, error |-> message,
     feedback |-> NoFeedback]

\* RecordOfResponse without the "Generated command is empty" check
RecordOfResponse_NoEmptyCheck(p, response_command) ==
    SuccessRecord(p, Strip(response_command))

\* generate_command, lines 322-349, on the dict _call_ollama returned (the dict
\* always holds "command", so "Failed to generate valid command" is never raised)
RecordOfResponse(p, response_command) ==
    LET command == Strip(response_command)
    IN  IF command = << >>
        THEN ErrorRecord(p, "Generated command is empty")
        ELSE SuccessRecord(p, command)

\* the record generate_command ends with when the backend call of this
\* iteration is the last one of the call
RecordOfAttempt(p, resp) ==
    CASE resp.kind = "text" -> RecordOfResponse(p, CleanResponse(resp.text))
      [] resp.kind = "malformed" -> ErrorRecord(p, "Invalid API response format")
      [] OTHER -> ErrorRecord(p, "Failed to call Ollama API")

\* IsRequestException taking every answer for a failure of the call
IsRequestException_Any(resp) == TRUE

\* except requests.exceptions.RequestException: the failures that are retried
IsRequestException(resp) == resp.kind \in {"refused", "timeout", "http_error"}

\* GenerateResult with a _save_history that lets its exceptions through
GenerateResult_SaveRaises(history, r, outcome) ==
    IF ~HistoryIsList(history) \/ outcome \in {"open_failed", "write_failed"}
    THEN [tag |-> "raised"]
    ELSE IF outcome = "interrupted" THEN [tag |-> "interrupted"]
    ELSE [tag |-> "dict", rec |-> r]

\* how generate_command ends once _call_ollama is over: on a history that is
\* no list the append raises AttributeError in the try block and again in the
\* except block, which leaves generate_command; the interrupt of a save passes
\* both except Exception clauses; else the record is returned
GenerateResult(history, r, outcome) ==
    IF ~HistoryIsList(history) THEN [tag |-> "raised"]
    ELSE IF outcome = "interrupted" THEN [tag |-> "interrupted"]
    ELSE [tag |-> "dict", rec |-> r]

\* one iteration of the retry loop of _call_ollama, from the moment
\* requests.post is over, and, when the loop ends with it, the rest of
\* generate_command; run() leaves its loop when generate_command raised
BackendAttemptSrc(resp, outcome) ==
    /\ pc = "invoking"
    /\ variant = "src"
    /\ calls' = calls + 1
    /\ all_failed' = (all_failed /\ resp.kind # "text")
    /\ IF IsRequestException(resp) /\ attempt # max_retries - 1
       THEN /\ sleeps' = sleeps + 1
            /\ attempt' = attempt + 1
            /\ UNCHANGED <<pc, ret, last_resp, command_history, history_file,
                           gen_appends, gen_saves>>
       ELSE LET r == RecordOfAttempt(prompt, resp)
            IN  /\ last_resp' = resp
                /\ IF HistoryIsList(command_history)
                   THEN /\ command_history' = Append(command_history, r)
                        /\ history_file' =
                               SavedFile(command_history', history_file, outcome)
                        /\ gen_appends' = gen_appends + 1
                        /\ gen_saves' = gen_saves + 1
                   ELSE UNCHANGED <<command_history, history_file, gen_appends,
                                    gen_saves>>
                /\ ret' = GenerateResult(command_history, r, outcome)
                /\ pc' = IF ret'.tag = "dict" THEN "generated" ELSE "exited"
                /\ UNCHANGED <<sleeps, attempt>>
    /\ blocked' = NotBlocked
    /\ UNCHANGED <<config_file, model_name, launch, available_ram_gb, recommended,
                   variant, max_retries, auto_execute, system_platform, prompt,
                   shell, exec_ret, vcmd, verdict>>

(***************************************************************************)
(* bourguibaGPT/main.py: generate_command and _add_to_history              *)
(***************************************************************************)
GptRecord(p, command) == [prompt |-> p, command |-> command, executed |-> FALSE]

\* response_data.get('response', '').strip() of a 200 answer, extracted
GptCandidate(resp) ==
    CASE resp.kind = "text" -> extract_command(Strip(resp.text))
      [] resp.kind = "malformed" -> extract_command(Strip(<< >>))
      [] OTHER -> None

\* SleepBeforeRetry sleeping after every failed attempt
SleepBeforeRetry_Always(a) == TRUE

\* if attempt < self.max_retries - 1: time.sleep(1), at the end of a failed
\* iteration
SleepBeforeRetry(a) == a < max_retries - 1

\* one iteration of the retry loop of generate_command, from the moment
\* requests.post is over; the AttributeError of
\* _add_to_history on a history that is no list is caught like a backend
\* failure, the interrupt of its save leaves generate_command and the loop
BackendAttemptGpt(resp, outcome) ==
    /\ pc = "invoking"
    /\ variant = "gpt"
    /\ calls' = calls + 1
    /\ all_failed' = (all_failed /\ resp.kind # "text")
    /\ LET command == GptCandidate(resp)
       IN  IF /\ Truthy(command) /\ validate_command(command)
              /\ HistoryIsList(command_history)
           THEN /\ last_resp' = resp
                /\ command_history' = Append(command_history, GptRecord(prompt, command))
                /\ history_file' = SavedFile(command_history', history_file, outcome)
                /\ gen_appends' = gen_appends + 1
                /\ gen_saves' = gen_saves + 1
                /\ ret' = IF outcome = "interrupted" THEN [tag |-> "interrupted"]
                          ELSE [tag |-> "str", command |-> command]
                /\ pc' = IF outcome = "interrupted" THEN "exited" ELSE "generated"
                /\ UNCHANGED <<sleeps, attempt>>
           ELSE /\ sleeps' = IF SleepBeforeRetry(attempt) THEN sleeps + 1
                              ELSE sleeps
                /\ IF attempt + 1 < max_retries
                   THEN /\ attempt' = attempt + 1
                        /\ UNCHANGED <<pc, ret, last_resp>>
                   ELSE /\ last_resp' = resp
                        /\ ret' = [tag |-> "None"]
                        /\ pc' = "generated"
                        /\ UNCHANGED attempt
                /\ UNCHANGED <<command_history, history_file, gen_appends,
                               gen_saves>>
    /\ blocked' = NotBlocked
    /\ UNCHANGED <<config_file, model_name, launch, available_ram_gb, recommended,
                   variant, max_retries, auto_execute, system_platform, prompt,
                   shell, exec_ret, vcmd, verdict>>

(***************************************************************************)
(* execute_command                                                         *)
(***************************************************************************)
\* one entry of the shell log: the string given to subprocess.run(shell=True),
\* whether a validator accepted it in the same execute call, and its exit status
Spawned(command, validated, consent, rc) ==
    [command |-> command, validated |-> validated, consent |-> consent, rc |-> rc]

\* what execute_command returned, the return statement it left by, and what
\* the user typed at its confirmation (nothing when it did not ask)
Returned(value, at, typed) == [value |-> value, at |-> at, typed |-> typed]

\* Confirmed letting every answer through
Confirmed_Always(typed) == TRUE

\* confirm = Prompt.ask(..., choices=["yes", "no"], default="no") and then
\* confirm.lower() == "yes"
Confirmed(typed) == Lower(PromptAsk(typed, Answers, Str_no)) = Str_yes

\* src execute_command from subprocess.run on (lines 415-438), once the
\* child has exited with rc
RunAndReportSrc(command, consent, asked, rc, feedback, outcome) ==
    /\ shell' = Append(shell, Spawned(command, TRUE, consent, rc))
    /\ IF rc # 0
       THEN /\ exec_ret' = Returned("False", "failed", asked)
            /\ UNCHANGED <<command_history, history_file>>
       ELSE IF command_history = << >>
       THEN \* command_history[-1] raises IndexError, which is caught
            /\ exec_ret' = Returned("False", "raised", asked)
            /\ UNCHANGED <<command_history, history_file>>
       ELSE /\ command_history' =
                   [command_history EXCEPT ![Len(command_history)].feedback =
                                               feedback]
            /\ history_file' =
                   SavedFile(command_history', history_file, outcome)
            /\ exec_ret' =
                   IF outcome = "interrupted"
                   THEN Returned("none", "interrupted", asked)
                   ELSE Returned("True", "succeeded", asked)

\* src/bourguibagpt/main.py: execute_command(command, confirm_execution);
\* confirm_execution=False is passed by run() alone, after the answer "e"
ExecuteCommandSrc(command, confirm_execution, typed, rc, feedback, outcome) ==
    LET v == Validate(command)
        asked == IF confirm_execution THEN typed ELSE << >>
    IN  IF ~v.ok
        THEN /\ exec_ret' = Returned("False", "rejected", << >>)
             /\ UNCHANGED <<shell, command_history, history_file>>
        ELSE IF confirm_execution /\ ~Confirmed(typed)
        THEN /\ exec_ret' = Returned("False", "declined", asked)
             /\ UNCHANGED <<shell, command_history, history_file>>
        ELSE RunAndReportSrc(command, IF confirm_execution THEN "yes" ELSE "e",
                             asked, rc, feedback, outcome)

\* gpt execute_command from subprocess.run on (lines 243-260), once the child
\* has exited with rc
RunAndReportGpt(command, typed, rc) ==
    /\ shell' = Append(shell, Spawned(command, TRUE, "yes", rc))
    /\ exec_ret' = IF rc = 0 THEN Returned("True", "succeeded", typed)
                   ELSE Returned("False", "failed", typed)
    /\ UNCHANGED <<command_history, history_file>>

\* ExecuteCommandGpt running the command with check=True: a nonzero exit
\* status raises CalledProcessError, which the except clause catches
ExecuteCommandGpt_CheckTrue(command, typed, rc) ==
    IF ~validate_command(command)
    THEN /\ exec_ret' = Returned("False", "rejected", << >>)
         /\ UNCHANGED <<shell, command_history, history_file>>
    ELSE IF Confirmed(typed)
    THEN /\ shell' = Append(shell, Spawned(command, TRUE, "yes", rc))
         /\ exec_ret' = IF rc = 0 THEN Returned("True", "succeeded", typed)
                        ELSE Returned("False", "raised", typed)
         /\ UNCHANGED <<command_history, history_file>>
    ELSE /\ exec_ret' = Returned("False", "declined", typed)
         /\ UNCHANGED <<shell, command_history, history_file>>

\* bourguibaGPT/main.py: execute_command(command)
ExecuteCommandGpt(command, typed, rc) ==
    IF ~validate_command(command)
    THEN /\ exec_ret' = Returned("False", "rejected", << >>)
         /\ UNCHANGED <<shell, command_history, history_file>>
    ELSE IF Confirmed(typed)
    THEN RunAndReportGpt(command, typed, rc)
    ELSE /\ exec_ret' = Returned("False", "declined", typed)
         /\ UNCHANGED <<shell, command_history, history_file>>

\* src run(): the user answers "e": execute_command(result["command"],
\* confirm_execution=False)
ChooseExecuteSrc(rc, feedback, outcome) ==
    /\ pc = "generated"
    /\ variant = "src"
    /\ Truthy(ret.rec.command)
    /\ Len(shell) < MaxExec
    /\ ExecuteCommandSrc(ret.rec.command, FALSE, << >>, rc, feedback, outcome)
    /\ pc' = "executed"
    /\ ClearLocals
    /\ UNCHANGED <<config_file, model_name, launch, available_ram_gb, recommended,
                   variant, max_retries, auto_execute, system_platform, vcmd,
                   verdict, blocked>>

\* execute_command has returned: the src loop goes on to sys.exit(0), the gpt
\* loop to its next turn
EndTurn ==
    /\ pc = "executed"
    /\ pc' = IF variant = "src" THEN "exited" ELSE "prompt"
    /\ exec_ret' = NotCalled
    /\ UNCHANGED <<config_file, model_name, launch, available_ram_gb, recommended,
                   variant, max_retries, auto_execute, system_platform, prompt,
                   attempt, calls, all_failed, sleeps, gen_appends, gen_saves,
                   last_resp, ret, command_history, history_file, shell,
                   vcmd, verdict, blocked>>

\* src run(): the user answers "n" (the default)
ChooseContinueSrc ==
    /\ pc = "generated"
    /\ variant = "src"
    /\ Truthy(ret.rec.command)
    /\ pc' = "prompt"
    /\ ClearLocals
    /\ UNCHANGED <<config_file, model_name, launch, available_ram_gb, recommended,
                   variant, max_retries, auto_execute, system_platform,
                   command_history, history_file, shell, exec_ret, vcmd, verdict, blocked>>

\* run(), both loops: no command came back, "Failed to generate a valid command"
ReportFailure ==
    /\ pc = "generated"
    /\ \/ variant = "src" /\ ~Truthy(ret.rec.command)
       \/ variant = "gpt" /\ ret.tag = "None"
    /\ pc' = "prompt"
    /\ ClearLocals
    /\ UNCHANGED <<config_file, model_name, launch, available_ram_gb, recommended,
                   variant, max_retries, auto_execute, system_platform,
                   command_history, history_file, shell, exec_ret, vcmd, verdict, blocked>>

\* src run(): "execute <command>" calls user_input[8:].trip(), which raises
\* AttributeError; the loop's except Exception branch reports "Unexpected
\* error" and breaks out of the loop
ExecuteInputSrc ==
    /\ pc = "prompt"
    /\ variant = "src"
    /\ pc' = "crashed"
    /\ exec_ret' = NotCalled
    /\ UNCHANGED <<config_file, model_name, launch, available_ram_gb, recommended,
                   variant, max_retries, auto_execute, system_platform, prompt,
                   attempt, calls, all_failed, sleeps, gen_appends, gen_saves,
                   last_resp, ret, command_history, history_file, shell,
                   vcmd, verdict, blocked>>

\* gpt run(): after a command was generated, execute_command when auto_execute
AfterGenerateGpt(typed, rc) ==
    /\ pc = "generated"
    /\ variant = "gpt"
    /\ ret.tag = "str"
    /\ IF auto_execute
       THEN /\ Len(shell) < MaxExec
            /\ ExecuteCommandGpt(ret.command, typed, rc)
            /\ pc' = "executed"
       ELSE /\ pc' = "prompt"
            /\ UNCHANGED <<shell, command_history, history_file, exec_ret>>
    /\ ClearLocals
    /\ UNCHANGED <<config_file, model_name, launch, available_ram_gb, recommended,
                   variant, max_retries, auto_execute, system_platform, vcmd,
                   verdict, blocked>>

\* gpt run(): "execute <command>"
ExecuteInputGpt(user_command, typed, rc) ==
    /\ pc = "prompt"
    /\ variant = "gpt"
    /\ Len(shell) < MaxExec
    /\ ExecuteCommandGpt(Strip(user_command), typed, rc)
    /\ pc' = "executed"
    /\ UNCHANGED <<config_file, model_name, launch, available_ram_gb, recommended,
                   variant, max_retries, auto_execute, system_platform,
                   prompt, attempt, calls, all_failed, sleeps, gen_appends,
                   gen_saves, last_resp, ret, vcmd, verdict, blocked>>

(***************************************************************************)
(* bourguiba/bourguiba.py: main                                            *)
(***************************************************************************)
\* one turn of the loop: the decoded text is cleaned and given to
\* subprocess.run(command, shell=True, check=True); CalledProcessError is caught
LegacyCycle(decoded, rc) ==
    /\ pc = "prompt"
    /\ variant = "legacy"
    /\ Len(shell) < MaxExec
    /\ shell' = Append(shell, Spawned(clean_command(decoded, system_platform), FALSE, "none", rc))
    /\ UNCHANGED <<config_file, model_name, launch, available_ram_gb, recommended,
                   variant, max_retries, auto_execute, system_platform, pc,
                   prompt, attempt, calls, all_failed, sleeps, gen_appends,
                   gen_saves, last_resp, ret, command_history, history_file,
                   exec_ret, vcmd, verdict, blocked>>

Next ==
    \/ Quit
    \/ \E p \in Prompts : StartGenerate(p)
    \/ \E resp \in Responses, outcome \in SaveOutcomes : BackendAttemptSrc(resp, outcome)
    \/ \E resp \in Responses, outcome \in SaveOutcomes : BackendAttemptGpt(resp, outcome)
    \/ \E rc \in ExitCodes, feedback \in Ratings, outcome \in SaveOutcomes :
           ChooseExecuteSrc(rc, feedback, outcome)
    \/ ChooseContinueSrc
    \/ ReportFailure
    \/ ExecuteInputSrc
    \/ \E typed \in TypedAnswers, rc \in ExitCodes : AfterGenerateGpt(typed, rc)
    \/ \E user_command \in UserCommands, typed \in TypedAnswers, rc \in ExitCodes :
           ExecuteInputGpt(user_command, typed, rc)
    \/ EndTurn
    \/ \E decoded \in LegacyTexts, rc \in ExitCodes : LegacyCycle(decoded, rc)

Spec == Init /\ [][Next]_vars

(***************************************************************************)
(* The history file across sessions                                        *)
(***************************************************************************)
\* a record an earlier session left in the file
OldRecord(v) ==
    IF v = "src" THEN SuccessRecord("old", Str_ls) ELSE GptRecord("old", Str_ls)

\* what the generator may find at history_file when it is constructed
InitialFiles(v) ==
    { [state |-> "absent", records |-> << >>],
      [state |-> "unparseable", records |-> << >>],
      [state |-> "not_a_list", records |-> << >>],
      [state |-> "written", records |-> JsonDump(<<OldRecord(v)>>)] }

\* the backend answers of the sessions that are followed across restarts
HistoryResponses ==
    { [kind |-> "refused", text |-> << >>],
      [kind |-> "text", text |-> Str_ls_la],
      [kind |-> "text", text |-> Str_rm_rf_root] }

\* __init__: command_history = [] and then _load_history()
InitHistory ==
    /\ variant \in {"src", "gpt"}
    /\ max_retries = 1
    /\ auto_execute = FALSE
    /\ system_platform = "Linux"
    /\ pc = "prompt"
    /\ prompt = ""
    /\ attempt = 0
    /\ calls = 0
    /\ all_failed = TRUE
    /\ sleeps = 0
    /\ gen_appends = 0
    /\ gen_saves = 0
    /\ last_resp = [kind |-> "none"]
    /\ ret = [tag |-> "not_called"]
    /\ history_file \in InitialFiles(variant)
    /\ command_history = LoadHistory(history_file)
    /\ shell = << >>
    /\ exec_ret = NotCalled
    /\ vcmd = << >>
    /\ verdict = NoVerdict
    /\ blocked = NotBlocked
    /\ config_file = [state |-> "absent"]
    /\ model_name = DefaultModel
    /\ launch = [started |-> FALSE]
    /\ available_ram_gb = 0
    /\ recommended = "not_called"

\* the program is started again: a new generator loads the history file
Restart ==
    /\ pc = "exited"
    /\ pc' = "prompt"
    /\ command_history' = LoadHistory(history_file)
    /\ exec_ret' = NotCalled
    /\ ClearLocals
    /\ UNCHANGED <<config_file, model_name, launch, available_ram_gb, recommended,
                   variant, max_retries, auto_execute, system_platform,
                   history_file, shell, vcmd, verdict, blocked>>

NextHistory ==
    \/ Quit
    \/ \E p \in Prompts : StartGenerate(p)
    \/ \E resp \in HistoryResponses, outcome \in SaveOutcomes :
           BackendAttemptSrc(resp, outcome)
    \/ \E resp \in HistoryResponses, outcome \in SaveOutcomes :
           BackendAttemptGpt(resp, outcome)
    \/ \E rc \in ExitCodes, feedback \in Ratings, outcome \in SaveOutcomes :
           ChooseExecuteSrc(rc, feedback, outcome)
    \/ ChooseContinueSrc
    \/ ReportFailure
    \/ \E typed \in TypedAnswers, rc \in ExitCodes : AfterGenerateGpt(typed, rc)
    \/ EndTurn
    \/ Restart

SpecHistory == InitHistory /\ [][NextHistory]_vars

(***************************************************************************)
(* Properties                                                              *)
(***************************************************************************)
\* the last generate_command call has returned
GenerateReturned == pc = "generated"

\* the command the variant's pipeline makes of the last backend text
CandidateOfLastText ==
    IF variant = "src" THEN Strip(CleanResponse(last_resp.text))
    ELSE extract_command(Strip(last_resp.text))

\* the variant's validator accepts the command
VariantAccepts(command) ==
    IF variant = "src" THEN Validate(command).ok ELSE validate_command(command)

\* the last call met one of the expected failure kinds: the backend failed,
\* no command was extracted, or the validator rejects the candidate
ExpectedFailure ==
    \/ last_resp.kind \in FailureKinds
    \/ /\ last_resp.kind = "text"
       /\ LET c == CandidateOfLastText
          IN  c = None \/ c = << >> \/ ~VariantAccepts(c)

\* the text holds ; or && or || or a grave accent somewhere
ContainsForbiddenSeparator(c) ==
    \E i \in 1..Len(c) :
        \/ c[i] \in {";", Backtick}
        \/ /\ i < Len(c)
           /\ c[i] \in {"&", "|"}
           /\ c[i + 1] = c[i]

\* the tokens of the command after an optional leading sudo
TokensAfterSudo(c) ==
    LET parts == Split(c)
    IN  IF parts # << >> /\ parts[1] = Str_sudo THEN Tail(parts) ELSE parts

\* C1 (as claimed): every string handed to the shell was accepted by the
\* safety validator earlier in the same execute call, in every variant.
C1_ExecutedOnlyIfValidated ==
    \A i \in 1..Len(shell) : shell[i].validated

\* C2 (as claimed): execute_command never spawns a process for rm -rf /,
\* with or without a confirmation prompt.
C2_RmRfRootNeverSpawned ==
    variant \in {"src", "gpt"} =>
        \A i \in 1..Len(shell) : shell[i].command # Str_rm_rf_root

\* C3 (as claimed): a generation record has success = true iff a command was
\* produced and the validator accepts it, and a backend answer of rm -rf / ends
\* in an appended and returned record with success = false.
C3_SuccessIffValidated ==
    /\ variant = "src" =>
           \A i \in 1..Len(command_history) :
               LET r == command_history[i]
               IN  r.success <=> (r.command # None /\ Validate(r.command).ok)
    /\ (GenerateReturned /\ last_resp.kind = "text" /\ last_resp.text = Str_rm_rf_root)
           => (ret.tag = "dict" /\ ~ret.rec.success /\ gen_appends = 1)

\* C4: every command text that holds ; && || or a grave accent is rejected by
\* both validators, whatever its leading token and its other tokens are.
C4_SeparatorRejected ==
    (verdict.run /\ ContainsForbiddenSeparator(vcmd))
        => (~verdict.src.ok /\ ~verdict.gpt)

\* a whitelisted leading token followed by a separator has been judged
C4_Witness ==
    /\ verdict.run
    /\ vcmd = <<"l", "s", " ", ";">>
    /\ ContainsForbiddenSeparator(vcmd)
    /\ ~verdict.src.ok
    /\ ~verdict.gpt

\* C5 (as claimed): a command whose leading token, after an optional sudo, is
\* not in the whitelist is rejected by the validator with the not-whitelisted
\* reason, and is never accepted.
C5_NotWhitelistedRejected ==
    (verdict.run /\ TokensAfterSudo(vcmd) # << >>
                 /\ TokensAfterSudo(vcmd)[1] \notin SAFE_COMMANDS)
        => /\ ~verdict.src.ok
           /\ verdict.src.error = "not in allowed list"
           /\ ~verdict.gpt

C7_ExactlyMaxRetriesCalls ==
    (GenerateReturned /\ all_failed)
        => /\ calls = max_retries
           /\ ret.tag = "dict"
           /\ ~ret.rec.success
           /\ ret.rec.error # NoError

\* C8 (as claimed): every generate_command call that returned has appended
\* exactly one record and triggered a save, failed attempts included.
C8_OneRecordPerCall ==
    (variant \in {"src", "gpt"} /\ GenerateReturned)
        => (gen_appends = 1 /\ gen_saves = 1)

\* C9 (as claimed): for each expected failure kind generate_command returns a
\* record with success = false and an error set.
C9_FailureRecordReturned ==
    (GenerateReturned /\ ExpectedFailure)
        => (ret.tag = "dict" /\ ~ret.rec.success /\ ret.rec.error # NoError)

\* success is true exactly when the command is a non-blank text and no error is set
RecordWellFormed(r) ==
    r.success <=> (r.command # None /\ Strip(r.command) # << >> /\ r.error = NoError)

\* C10: every record generate_command (src) creates has success = true exactly
\* when its command is non-blank and its error is empty, and a blank backend
\* text is never recorded or returned as a success.
C10_SuccessIffCommandNoError ==
    variant = "src" =>
        /\ \A i \in 1..Len(command_history) : RecordWellFormed(command_history[i])
        /\ ret.tag = "dict" => RecordWellFormed(ret.rec)
        /\ (GenerateReturned /\ last_resp.kind = "text" /\ Strip(last_resp.text) = << >>)
               => (ret.tag = "dict" /\ ~ret.rec.success)

\* a success record is in the history and a blank backend text has just ended
\* in a failure record
C10_Witness ==
    /\ variant = "src"
    /\ GenerateReturned
    /\ last_resp.kind = "text"
    /\ last_resp.text = Str_blank
    /\ Len(command_history) = 2
    /\ command_history[1].success
    /\ ~command_history[2].success
    /\ ret.rec = command_history[2]

(***************************************************************************)
(* execute_command called by itself                                        *)
(***************************************************************************)
\* the commands execute_command is called with
ExecuteCommands ==
    { Str_ls, Str_ls_la, Str_rm_rf_root, Str_foo, Str_sudo_ls, Str_multi }

\* a generator with an empty history or with one record, and its file
InitExecute ==
    /\ variant \in {"src", "gpt"}
    /\ max_retries = 1
    /\ auto_execute = FALSE
    /\ system_platform = "Linux"
    /\ pc = "caller"
    /\ prompt = ""
    /\ attempt = 0
    /\ calls = 0
    /\ all_failed = TRUE
    /\ sleeps = 0
    /\ gen_appends = 0
    /\ gen_saves = 0
    /\ last_resp = [kind |-> "none"]
    /\ ret = [tag |-> "not_called"]
    /\ history_file \in { [state |-> "absent", records |-> << >>],
                          [state |-> "written",
                           records |-> JsonDump(<<OldRecord(variant)>>)] }
    /\ command_history = LoadHistory(history_file)
    /\ shell = << >>
    /\ exec_ret = NotCalled
    /\ vcmd = << >>
    /\ verdict = NoVerdict
    /\ blocked = NotBlocked
    /\ config_file = [state |-> "absent"]
    /\ model_name = DefaultModel
    /\ launch = [started |-> FALSE]
    /\ available_ram_gb = 0
    /\ recommended = "not_called"

\* generator.execute_command(command, confirm_execution) of src/bourguibagpt
CallExecuteSrc(command, confirm_execution, typed, rc, feedback, outcome) ==
    /\ pc = "caller"
    /\ variant = "src"
    /\ Len(shell) < MaxExec
    /\ ExecuteCommandSrc(command, confirm_execution, typed, rc, feedback, outcome)
    /\ vcmd' = command
    /\ UNCHANGED <<config_file, model_name, launch, available_ram_gb, recommended,
                   variant, max_retries, auto_execute, system_platform, pc,
                   prompt, attempt, calls, all_failed, sleeps, gen_appends,
                   gen_saves, last_resp, ret, verdict, blocked>>

\* generator.execute_command(command) of bourguibaGPT
CallExecuteGpt(command, typed, rc) ==
    /\ pc = "caller"
    /\ variant = "gpt"
    /\ Len(shell) < MaxExec
    /\ ExecuteCommandGpt(command, typed, rc)
    /\ vcmd' = command
    /\ UNCHANGED <<config_file, model_name, launch, available_ram_gb, recommended,
                   variant, max_retries, auto_execute, system_platform, pc,
                   prompt, attempt, calls, all_failed, sleeps, gen_appends,
                   gen_saves, last_resp, ret, verdict, blocked>>

NextExecute ==
    \/ \E command \in ExecuteCommands, confirm_execution \in BOOLEAN,
          typed \in TypedAnswers, rc \in ExitCodes, feedback \in Ratings,
          outcome \in SaveOutcomes :
           CallExecuteSrc(command, confirm_execution, typed, rc, feedback, outcome)
    \/ \E command \in ExecuteCommands, typed \in TypedAnswers, rc \in ExitCodes :
           CallExecuteGpt(command, typed, rc)

SpecExecute == InitExecute /\ [][NextExecute]_vars

(***************************************************************************)
(* Properties of the history file and of execute_command                   *)
(***************************************************************************)
\* the records a new generator would read from the file
Persisted(file) == IF file.state = "written" THEN JsonLoad(file.records) ELSE << >>

\* the record without the rating execute_command adds to it
WithoutFeedback(r) ==
    IF "feedback" \in DOMAIN r THEN [r EXCEPT !.feedback = NoFeedback] ELSE r

\* C11: whenever a save has written the file, a generator that loads the file
\* holds exactly the records of the saving generator, in the same order and
\* with the same field values.
C11_RoundTrip ==
    [][(history_file' # history_file /\ history_file'.state = "written")
           => LoadHistory(history_file') = command_history']_vars

\* an error record and a rated success record were saved and read back alike
C11_Witness ==
    /\ variant = "src"
    /\ history_file.state = "written"
    /\ Len(command_history) = 2
    /\ command_history[1].command = None
    /\ command_history[2].feedback # NoFeedback
    /\ LoadHistory(history_file) = command_history

\* C12 (as claimed): every step leaves the records the file held in the file,
\* at their positions; the file only grows (the rating of a record apart).
C12_AppendOnly ==
    [][LET old == Persisted(history_file)
           new == Persisted(history_file')
       IN  /\ Len(old) <= Len(new)
           /\ \A i \in 1..Len(old) :
                  WithoutFeedback(new[i]) = WithoutFeedback(old[i])]_vars

\* C13 (as claimed): the file never holds a truncated or partially written
\* document, whatever fails or interrupts a save.
C13_AtomicSave == history_file.state # "partial"

\* C14 (as claimed): whatever the generator found in the history file,
\* generate_command does not raise.
C14_LoadTolerant == variant = "src" => ret.tag # "raised"

\* C15: a save that fails inside generate_command raises nothing: the call
\* returns the record of its backend answer, which is the last record of the
\* in-memory history, and so do the calls after it.
C15_SaveFailureNonFatal ==
    (variant = "src" /\ HistoryIsList(command_history))
        => /\ ret.tag # "raised"
           /\ GenerateReturned
                  => /\ ret.tag = "dict"
                     /\ ret.rec = RecordOfAttempt(prompt, last_resp)
                     /\ gen_appends = 1
                     /\ command_history[Len(command_history)] = ret.rec

\* the second call returned its success record although its save failed
C15_Witness ==
    /\ variant = "src"
    /\ GenerateReturned
    /\ history_file.state = "partial"
    /\ Len(command_history) = 2
    /\ ret.tag = "dict"
    /\ ret.rec.success
    /\ gen_saves = 1

\* the step is a call of execute_command that has returned
ExecuteStep == exec_ret' # exec_ret /\ exec_ret'.value # "not_called"

\* execute_command asked for the confirmation and the input that ended the
\* question was not yes
UserDeclined(r) == r.typed # << >> /\ r.typed[Len(r.typed)] # Str_yes

\* C16: a call of execute_command in which the user declines the confirmation
\* spawns no process and changes neither the in-memory history nor the file.
C16_DeclineChangesNothing ==
    [][(ExecuteStep /\ UserDeclined(exec_ret'))
           => /\ exec_ret'.value = "False"
              /\ UNCHANGED <<shell, command_history, history_file>>]_vars

\* the confirmation for ls -la was declined with a history of one record
C16_Witness ==
    /\ pc = "caller"
    /\ vcmd = Str_ls_la
    /\ exec_ret.value = "False"
    /\ exec_ret.at = "declined"
    /\ exec_ret.typed = <<Str_no>>
    /\ shell = << >>
    /\ Len(command_history) = 1

\* the outcomes that must not be mistaken for one another
FailureOutcomes == {"declined", "failed", "rejected"}

\* C17 (as claimed): two calls of execute_command that end differently among
\* declined, ran and failed, and rejected by the validator return different
\* values.
C17_OutcomesDistinct ==
    [][(/\ exec_ret.value # "not_called"
        /\ ExecuteStep
        /\ exec_ret.at \in FailureOutcomes
        /\ exec_ret'.at \in FailureOutcomes
        /\ exec_ret'.at # exec_ret.at)
           => exec_ret'.value # exec_ret.value]_vars

\* C18 (as claimed): when execute_command asked, a process was spawned only if
\* the answer was exactly yes, and every other answer ended the call as a
\* decline.
C18_ExactYesOnly ==
    (exec_ret.value # "not_called" /\ exec_ret.typed # << >>)
        => IF exec_ret.typed[1] = Str_yes
           THEN exec_ret.at # "declined"
           ELSE exec_ret.at = "declined"

\* C19 (as claimed): every process spawned in a session was preceded by an
\* affirmative answer of the user in the same turn of the loop.
C19_ConfirmedBeforeExecution ==
    \A i \in 1..Len(shell) : shell[i].consent \in {"yes", "e"}

\* C20: a call of execute_command whose process exits with a nonzero status
\* spawned exactly that one process, returns False from the failure branch
\* and leaves the history and its file as they were.
C20_NonzeroReported ==
    [][(ExecuteStep /\ shell' # shell /\ shell'[Len(shell')].rc # 0)
           => /\ shell' = Append(shell, shell'[Len(shell')])
              /\ shell'[Len(shell')].command = vcmd'
              /\ exec_ret'.value = "False"
              /\ exec_ret'.at = "failed"
              /\ UNCHANGED <<command_history, history_file>>]_vars

\* ls -la ran once, exited with 1 and False came back, the history untouched
C20_Witness ==
    /\ pc = "caller"
    /\ vcmd = Str_ls_la
    /\ Len(shell) = 1
    /\ shell[1].rc = 1
    /\ exec_ret.value = "False"
    /\ exec_ret.at = "failed"
    /\ Len(command_history) = 1
    /\ command_history[1].feedback = NoFeedback

(***************************************************************************)
(* The two blocking calls: requests.post and subprocess.run                *)
(***************************************************************************)
\* the backend answers of the sessions whose blocking calls are followed
BlockingResponses ==
    { [kind |-> "refused", text |-> << >>],
      [kind |-> "timeout", text |-> << >>],
      [kind |-> "text", text |-> Str_ls_la],
      [kind |-> "text", text |-> Str_rm_rf_root] }

\* the outcomes of the saves of these sessions
BlockingSaveOutcomes == {"ok", "write_failed"}

InitBlocking ==
    /\ variant \in {"src", "gpt"}
    /\ max_retries \in RetryChoices
    /\ auto_execute = FALSE
    /\ system_platform = "Linux"
    /\ pc = "prompt"
    /\ prompt = ""
    /\ attempt = 0
    /\ calls = 0
    /\ all_failed = TRUE
    /\ sleeps = 0
    /\ gen_appends = 0
    /\ gen_saves = 0
    /\ last_resp = [kind |-> "none"]
    /\ ret = [tag |-> "not_called"]
    /\ command_history = << >>
    /\ history_file = [state |-> "absent", records |-> << >>]
    /\ shell = << >>
    /\ exec_ret = NotCalled
    /\ vcmd = << >>
    /\ verdict = NoVerdict
    /\ blocked = NotBlocked
    /\ config_file = [state |-> "absent"]
    /\ model_name = DefaultModel
    /\ launch = [started |-> FALSE]
    /\ available_ram_gb = 0
    /\ recommended = "not_called"

\* requests.post(self.ollama_api, json=..., timeout=self.timeout) is entered;
\* the backend answers or never does
BeginPost(hung) ==
    /\ pc = "invoking"
    /\ blocked.on = "none"
    /\ blocked' = [on |-> "backend", hung |-> hung, waited |-> 0, call |-> << >>]
    /\ UNCHANGED <<config_file, model_name, launch, available_ram_gb, recommended,
                   variant, max_retries, auto_execute, system_platform, pc,
                   prompt, attempt, calls, all_failed, sleeps, gen_appends,
                   gen_saves, last_resp, ret, command_history, history_file,
                   shell, exec_ret, vcmd, verdict>>

\* time passes while the program is inside a blocking call; the clock of the
\* model stops one tick past the configured timeout
Wait ==
    /\ blocked.on # "none"
    /\ blocked.waited <= TimeoutTicks
    /\ blocked' = [blocked EXCEPT !.waited = blocked.waited + 1]
    /\ UNCHANGED <<config_file, model_name, launch, available_ram_gb, recommended,
                   variant, max_retries, auto_execute, system_platform, pc,
                   prompt, attempt, calls, all_failed, sleeps, gen_appends,
                   gen_saves, last_resp, ret, command_history, history_file,
                   shell, exec_ret, vcmd, verdict>>

\* requests.post is over: a backend that answers does so at any time, and
\* requests raises Timeout once self.timeout has passed without an answer
PostReturns(resp, outcome) ==
    /\ blocked.on = "backend"
    /\ IF resp.kind = "timeout"
       THEN blocked.waited >= TimeoutTicks
       ELSE ~blocked.hung
    /\ \/ BackendAttemptSrc(resp, outcome)
       \/ BackendAttemptGpt(resp, outcome)

\* src execute_command(result["command"], confirm_execution=False) enters
\* subprocess.run(command, shell=True, text=True, capture_output=True): the
\* call is given no timeout; the child exits or never does
BeginSpawnSrc(hung) ==
    /\ pc = "generated"
    /\ variant = "src"
    /\ Truthy(ret.rec.command)
    /\ Validate(ret.rec.command).ok
    /\ Len(shell) < MaxExec
    /\ pc' = "spawned"
    /\ blocked' = [on |-> "child", hung |-> hung, waited |-> 0,
                   call |-> <<ret.rec.command, << >> >>]
    /\ UNCHANGED <<config_file, model_name, launch, available_ram_gb, recommended,
                   variant, max_retries, auto_execute, system_platform,
                   prompt, attempt, calls, all_failed, sleeps, gen_appends,
                   gen_saves, last_resp, ret, command_history, history_file,
                   shell, exec_ret, vcmd, verdict>>

\* gpt execute_command(command) enters subprocess.run after validation and an
\* affirmative answer: the call is given no timeout
BeginSpawnGpt(user_command, typed, hung) ==
    /\ pc = "prompt"
    /\ variant = "gpt"
    /\ validate_command(Strip(user_command))
    /\ Confirmed(typed)
    /\ Len(shell) < MaxExec
    /\ pc' = "spawned"
    /\ blocked' = [on |-> "child", hung |-> hung, waited |-> 0,
                   call |-> <<Strip(user_command), typed>>]
    /\ UNCHANGED <<config_file, model_name, launch, available_ram_gb, recommended,
                   variant, max_retries, auto_execute, system_platform,
                   prompt, attempt, calls, all_failed, sleeps, gen_appends,
                   gen_saves, last_resp, ret, command_history, history_file,
                   shell, exec_ret, vcmd, verdict>>

\* the child exits: subprocess.run returns and execute_command goes on to its
\* end; nothing ends subprocess.run while the child runs
ChildReturns(rc, feedback, outcome) ==
    /\ pc = "spawned"
    /\ blocked.on = "child"
    /\ ~blocked.hung
    /\ IF variant = "src"
       THEN RunAndReportSrc(blocked.call[1], "e", << >>, rc, feedback, outcome)
       ELSE RunAndReportGpt(blocked.call[1], blocked.call[2], rc)
    /\ pc' = "executed"
    /\ blocked' = NotBlocked
    /\ ClearLocals
    /\ UNCHANGED <<config_file, model_name, launch, available_ram_gb, recommended,
                   variant, max_retries, auto_execute, system_platform, vcmd,
                   verdict>>

NextBlocking ==
    \/ \E p \in Prompts : StartGenerate(p)
    \/ \E hung \in BOOLEAN : BeginPost(hung)
    \/ Wait
    \/ \E resp \in BlockingResponses, outcome \in BlockingSaveOutcomes :
           PostReturns(resp, outcome)
    \/ ChooseContinueSrc
    \/ ReportFailure
    \/ \E typed \in TypedAnswers, rc \in ExitCodes : AfterGenerateGpt(typed, rc)
    \/ \E hung \in BOOLEAN : BeginSpawnSrc(hung)
    \/ \E user_command \in UserCommands, typed \in TypedAnswers, hung \in BOOLEAN :
           BeginSpawnGpt(user_command, typed, hung)
    \/ \E rc \in ExitCodes, feedback \in Ratings, outcome \in BlockingSaveOutcomes :
           ChildReturns(rc, feedback, outcome)
    \/ EndTurn

\* the interpreter and the clock keep running: a step that can be taken is
\* taken
SpecBlocking == InitBlocking /\ [][NextBlocking]_vars /\ WF_vars(NextBlocking)

(***************************************************************************)
(* Properties of generation, extraction and execution                      *)
(***************************************************************************)
\* every backend call of generate_command comes to its end
GenerateCallReturns == (pc = "invoking") ~> (pc # "invoking")

\* every subprocess.run of execute_command comes to its end
ExecuteCallReturns == (pc = "spawned") ~> (pc = "executed")

\* C21 (as claimed): a generate_command call with an unresponsive backend and
\* an execute_command call with a hung child process both return in the end.
C21_BlockingCallsReturn == GenerateCallReturns /\ ExecuteCallReturns

\* C22 (as claimed): a generate_command call with an empty description makes
\* no backend call and, once it has returned, has returned a failure.
C22_EmptyRejectedUpFront ==
    (pc \in {"invoking", "generated"} /\ prompt = "")
        => /\ calls = 0
           /\ GenerateReturned
                  => \/ ret.tag = "None"
                     \/ ret.tag = "dict" /\ ~ret.rec.success

(***************************************************************************)
(* The extraction of the command as a pure function                        *)
(***************************************************************************)
\* texts the backend answers with: a shell name alone and after a command, a
\* line of explanation, the mkdir and docker cases, a fenced answer, and
\* every short text of a few characters
ExtractTexts ==
    { <<"b", "a", "s", "h">>,
      <<"l", "s", " ", "-", "l", "a", "\n", "b", "a", "s", "h">>,
      <<"o", "k", ":", "\n", "l", "s", " ", "-", "l", "a">>,
      <<"m", "k", "d", "i", "r", " ", "f", "a", "r", "m">>,
      <<"m", "k", "d", "i", "r", " ", "a", " ", "r", "m", " ", "b">>,
      <<"d", "o", "c", "k", "e", "r", " ", "r", "u", "n", " ", "x", " ", "-", "u">>,
      <<Backtick, Backtick, Backtick, "s", "h", "\n", "l", "s", "\n", Backtick, Backtick, Backtick>>,
      <<"l", "s", "\n", "S", "H">>,
      <<" ", "l", "s", " ", "-", "l", "a", " ", "\n">> }
    \cup UNION { [1..n -> {"l", "s", " ", "\n", ";"}] : n \in 0..MaxCmdLen }

InitExtract ==
    /\ vcmd \in ExtractTexts
    /\ verdict = NoVerdict
    /\ variant = "gpt"
    /\ max_retries = 1
    /\ auto_execute = FALSE
    /\ system_platform = "Linux"
    /\ pc = "extractors"
    /\ prompt = ""
    /\ attempt = 0
    /\ calls = 0
    /\ all_failed = TRUE
    /\ sleeps = 0
    /\ gen_appends = 0
    /\ gen_saves = 0
    /\ last_resp = [kind |-> "none"]
    /\ ret = [tag |-> "not_called"]
    /\ command_history = << >>
    /\ history_file = [state |-> "absent", records |-> << >>]
    /\ shell = << >>
    /\ exec_ret = NotCalled
    /\ blocked = NotBlocked
    /\ config_file = [state |-> "absent"]
    /\ model_name = DefaultModel
    /\ launch = [started |-> FALSE]
    /\ available_ram_gb = 0
    /\ recommended = "not_called"

\* what the two generators make of the backend text vcmd: bourguibaGPT's
\* extract_command(response.strip()) and the clean-up of _call_ollama followed
\* by the strip of generate_command
RunExtractors ==
    /\ pc = "extractors"
    /\ ~verdict.run
    /\ verdict' = [run |-> TRUE,
                   extracted |-> extract_command(Strip(vcmd)),
                   cleaned |-> Strip(CleanResponse(vcmd))]
    /\ UNCHANGED <<vcmd, session_vars>>

SpecExtract == InitExtract /\ [][RunExtractors]_vars

\* the lines of the text, each trimmed
TrimmedLines(text) ==
    LET lines == SplitLines(text)
    IN  [i \in 1..Len(lines) |-> Strip(lines[i])]

\* the trimmed lines of the command shape: tokens of word characters, dots,
\* slashes and dashes
QualifyingLines(text) ==
    { i \in 1..Len(TrimmedLines(text)) :
          FullMatchCommandPattern(TrimmedLines(text)[i]) }

\* the last qualifying line, none when there is none
LastQualifyingLine(text) ==
    IF QualifyingLines(text) = {} THEN None
    ELSE TrimmedLines(text)[CHOOSE i \in QualifyingLines(text) :
                                \A j \in QualifyingLines(text) : j <= i]

\* C23 (as claimed): the extracted command is the last line of the backend
\* text that has the command shape, trimmed and not changed otherwise, and
\* none when no line has it; what the other generator takes as the command is
\* one of the trimmed lines of the text, too.
C23_LastMatchingLineUnmodified ==
    verdict.run =>
        /\ verdict.extracted = LastQualifyingLine(vcmd)
        /\ verdict.cleaned # << >>
               => \E i \in 1..Len(TrimmedLines(vcmd)) :
                      verdict.cleaned = TrimmedLines(vcmd)[i]

\* the line is a shell name alone or a code fence marker
ShellNameOrFence(line) ==
    line # None /\ (Lower(line) \in ShellNames \/ StartsWith(line, Str_fence))

\* C24 (as claimed): neither generator takes a bare shell name or a code fence
\* marker as the command, wherever the line stands in the backend text.
C24_ShellNamesAndFencesDiscarded ==
    verdict.run =>
        /\ ~ShellNameOrFence(verdict.extracted)
        /\ ~ShellNameOrFence(verdict.cleaned)

\* C25 (as claimed): within one generate_command call a backend call is made
\* only while every backend call before it failed: none follows a call that
\* returned text, whatever extraction and validation made of the text.
C25_RetryOnlyOnBackendFailure ==
    [][(pc = "invoking" /\ calls' = calls + 1) => all_failed]_vars

\* the reason of the earliest failing check in the order empty, forbidden
\* separator, structural shape, whitelist ("" when none of the four fails)
ReasonOfEarliestCheck(c) ==
    IF Strip(c) = << >> THEN "Empty command"
    ELSE IF ContainsForbiddenSeparator(c) THEN "multi-statement"
    ELSE IF FirstBadArg(Split(c), 2) # 0 THEN "Invalid argument format"
    ELSE IF TokensAfterSudo(c)[1] \notin SAFE_COMMANDS THEN "not in allowed list"
    ELSE ""

\* C26 (as claimed): a command that fails one of the checks empty, forbidden
\* separator, structural shape, whitelist is rejected with the reason of the
\* earliest of them in this order; ls; cat /etc/passwd is rejected as
\* multi-statement.
C26_EarliestCheckGivesReason ==
    (verdict.run /\ ReasonOfEarliestCheck(vcmd) # "")
        => /\ ~verdict.src.ok
           /\ verdict.src.error = ReasonOfEarliestCheck(vcmd)

\* a single line, trimmed, that the variant's validator accepts
AcceptedSingleLine(text) ==
    /\ text # << >>
    /\ \A i \in 1..Len(text) : text[i] # "\n"
    /\ Strip(text) = text
    /\ VariantAccepts(text)

\* the step is the first backend call of a generate_command call, and the
\* backend answers it with resp
FirstCallAnswered(resp, outcome) ==
    /\ calls = 0
    /\ \/ BackendAttemptSrc(resp, outcome)
       \/ BackendAttemptGpt(resp, outcome)

\* the call returned a success whose command is the text
ReturnedSuccess(result, text) ==
    \/ result.tag = "dict" /\ result.rec.success /\ result.rec.command = text
    \/ result.tag = "str" /\ result.command = text

C29_FeedbackKeyedByCommand ==
    [][(ExecuteStep /\ command_history' # command_history)
           => \E i \in 1..Len(command_history) :
                  /\ command_history[i].command = vcmd'
                  /\ command_history' =
                         [command_history EXCEPT ![i].feedback =
                                                     command_history'[i].feedback]]_vars

\* the record tells that its command was executed: executed is true (gpt
\* records) or a rating was given after the run (src records)
TellsExecution(r) ==
    IF "executed" \in DOMAIN r THEN r.executed ELSE r.feedback # NoFeedback

\* some record of the history tells that the command was executed
ExecutionRecordedIn(history, command) ==
    \E j \in 1..Len(history) :
        history[j].command = command /\ TellsExecution(history[j])

\* C30 (as claimed): for every process execute_command has spawned, whatever
\* its exit status, the history in memory and the history file hold a record
\* of the command that tells it was executed.
C30_ExecutionRecorded ==
    \A i \in 1..Len(shell) :
        /\ ExecutionRecordedIn(command_history, shell[i].command)
        /\ ExecutionRecordedIn(Persisted(history_file), shell[i].command)

(***************************************************************************)
(* Properties of the interactive loop, the retry delay and the preferences *)
(***************************************************************************)
\* C31 (as claimed): a turn of the loop in which the user types
\* "execute <command>" calls execute_command, with the text after "execute "
\* trimmed when a process is spawned, and leaves the session running.
C31_ExecuteInputCallsExecute ==
    [][(pc = "prompt" /\ variant \in {"src", "gpt"})
           => /\ ExecuteInputSrc => (pc' = "executed" /\ exec_ret' # NotCalled)
              /\ \A user_command \in UserCommands, typed \in TypedAnswers,
                    rc \in ExitCodes :
                     ExecuteInputGpt(user_command, typed, rc)
                         => /\ pc' = "executed"
                            /\ exec_ret' # NotCalled
                            /\ shell' # shell
                                   => shell'[Len(shell')].command =
                                          Strip(user_command)]_vars

\* generate_command has returned a command to the loop
GeneratedSuccessfully ==
    /\ pc = "generated"
    /\ \/ variant = "src" /\ ret.rec.success /\ Truthy(ret.rec.command)
       \/ variant = "gpt" /\ ret.tag = "str"

\* C32 (as claimed): with auto_execute, the turn of the loop goes on from a
\* successfully generated command to execute_command, and no process is
\* spawned on the user's choice "e".
C32_AutoExecuteHandsOver ==
    [][(auto_execute /\ GeneratedSuccessfully)
           => /\ pc' = "executed"
              /\ exec_ret' # NotCalled
              /\ shell' # shell => shell'[Len(shell')].consent # "e"]_vars

\* line breaks, and the characters the shell reads as operators or expansions
LineBreaks == {"\n", "\r"}
ShellMetaChars == {";", "&", "|", "<", ">", "(", ")", "$", Backtick}

\* C33 (as claimed): a command either validator accepts contains no line
\* break and no shell metacharacter.
C33_AcceptedIsSingleStatement ==
    (verdict.run /\ (verdict.src.ok \/ verdict.gpt))
        => \A i \in 1..Len(vcmd) : vcmd[i] \notin LineBreaks \cup ShellMetaChars

\* C34: while generate_command runs, every backend attempt made so far was
\* followed by one sleep (the next attempt is due); once it has returned or
\* raised, the sleeps are one fewer than the backend calls: none after the
\* last attempt, none after a successful one.
C34_OneSleepBetweenAttempts ==
    /\ pc = "invoking" => sleeps = calls
    /\ ret.tag \notin {"not_called", "running"} => sleeps = calls - 1

\* a call that made every attempt it is allowed and failed at each
C34_Witness ==
    /\ GenerateReturned
    /\ max_retries = MaxRetriesBound
    /\ calls = MaxRetriesBound
    /\ sleeps = MaxRetriesBound - 1
    /\ variant = "gpt"
    /\ ret.tag = "None"

\* C35 (as claimed): a call of execute_command returns True exactly when it
\* spawned a process and the process exited with status 0, whatever the
\* history holds.
C35_TrueIffSpawnedAndExitZero ==
    [][ExecuteStep
           => (exec_ret'.value = "True"
                   <=> (shell' # shell /\ shell'[Len(shell')].rc = 0))]_vars

\* the step ends a generate_command call whose save succeeded
GenerateSavedOk ==
    /\ pc = "invoking"
    /\ gen_saves' = gen_saves + 1
    /\ \E resp \in HistoryResponses :
           BackendAttemptSrc(resp, "ok") \/ BackendAttemptGpt(resp, "ok")

\* C36: while a session runs, no step takes a record out of the in-memory
\* history or changes more of it than a rating, whether its save failed or
\* not; and after a generate_command call whose save succeeded, the file
\* holds the in-memory history, records of failed saves included.
C36_SessionRecordsKept ==
    [][pc # "exited"
           => /\ Len(command_history) <= Len(command_history')
              /\ \A i \in 1..Len(command_history) :
                     WithoutFeedback(command_history'[i]) =
                         WithoutFeedback(command_history[i])
              /\ GenerateSavedOk
                     => Persisted(history_file') = command_history']_vars

\* the last call a session is followed for has saved: the file holds all the
\* records of the session
C36_Witness ==
    /\ GenerateReturned
    /\ gen_saves = 1
    /\ Len(command_history) = MaxHistory
    /\ command_history[1].prompt = "list files"
    /\ history_file.state = "written"
    /\ Persisted(history_file) = command_history

\* the letters of the flag tokens (-x...) among the tokens from the i-th on
RECURSIVE FlagLetters(_, _)
FlagLetters(tokens, i) ==
    IF i > Len(tokens) THEN {}
    ELSE (IF tokens[i][1] = "-"
          THEN {tokens[i][k] : k \in 2..Len(tokens[i])} ELSE {})
             \cup FlagLetters(tokens, i + 1)

\* rm with the recursive and the force flag, in any spelling, on the root path
RmRecursiveForceRoot(c) ==
    /\ Strip(c) # << >>
    /\ LET tokens == Split(Strip(c))
       IN  /\ Len(tokens) >= 3
           /\ tokens[1] = Str_rm
           /\ tokens[Len(tokens)] = <<"/">>
           /\ {"r", "f"} \subseteq FlagLetters(tokens, 2)

\* C37 (as claimed): validate_command, the validator with the dangerous
\* patterns, rejects every rm command with the recursive and the force flag on
\* the root path, however the flags are written.
C37_FlagSpellingIrrelevant ==
    (verdict.run /\ RmRecursiveForceRoot(vcmd)) => ~verdict.gpt

(***************************************************************************)
(* get_recommended_model as a pure function                                *)
(***************************************************************************)
InitRecommend ==
    /\ available_ram_gb \in 0..MaxRam
    /\ recommended = "not_called"
    /\ config_file = [state |-> "absent"]
    /\ model_name = DefaultModel
    /\ launch = [started |-> FALSE]
    /\ vcmd = << >>
    /\ verdict = NoVerdict
    /\ variant = "src"
    /\ max_retries = 1
    /\ auto_execute = FALSE
    /\ system_platform = "Linux"
    /\ pc = "config"
    /\ prompt = ""
    /\ attempt = 0
    /\ calls = 0
    /\ all_failed = TRUE
    /\ sleeps = 0
    /\ gen_appends = 0
    /\ gen_saves = 0
    /\ last_resp = [kind |-> "none"]
    /\ ret = [tag |-> "not_called"]
    /\ command_history = << >>
    /\ history_file = [state |-> "absent", records |-> << >>]
    /\ shell = << >>
    /\ exec_ret = NotCalled
    /\ blocked = NotBlocked

\* get_recommended_model(available_ram_gb) is called
CallRecommend ==
    /\ pc = "config"
    /\ recommended = "not_called"
    /\ recommended' = get_recommended_model(available_ram_gb)
    /\ UNCHANGED <<variant, max_retries, auto_execute, system_platform, pc,
                   prompt, attempt, calls, all_failed, sleeps, gen_appends,
                   gen_saves, last_resp, ret, command_history, history_file,
                   shell, exec_ret, vcmd, verdict, blocked, config_file,
                   model_name, launch, available_ram_gb>>

SpecRecommend == InitRecommend /\ [][CallRecommend]_vars

\* the tier the thresholds of MODEL_CONFIG recommend for the RAM: the largest
\* one whose threshold the RAM reaches
RecommendedTier(ram) ==
    IF ram >= 18 THEN "large" ELSE IF ram >= 10 THEN "medium" ELSE "tiny"

\* C39 (as claimed): get_recommended_model returns tiny below 10 GB, medium
\* from 10 GB to below 18 GB, and large from 18 GB on.
C39_RecommendedTier ==
    recommended # "not_called"
        => recommended = RecommendedTier(available_ram_gb)

(***************************************************************************)
(* src/bourguibagpt/main.py: main and the model preference                 *)
(***************************************************************************)
\* CONFIG_FILE after save_user_preferences(name): CONFIG_DIR.mkdir or open
\* fails and the file is as it was; json.dump fails after open truncated the
\* file; else the file holds the name
SavedPreference(name, file, outcome) ==
    CASE outcome = "ok" -> [state |-> "written", preferred_model |-> name]
      [] outcome = "open_failed" -> file
      [] OTHER -> [state |-> "partial"]

\* the program is started from the shell; CONFIG_FILE is absent or was
\* written by an earlier run
InitMain ==
    /\ config_file \in {[state |-> "absent"]}
                           \cup {[state |-> "written", preferred_model |-> m] :
                                     m \in ModelNames \cup {DefaultModel}}
    /\ model_name = "none"
    /\ launch = [started |-> FALSE]
    /\ available_ram_gb = 0
    /\ recommended = "not_called"
    /\ vcmd = << >>
    /\ verdict = NoVerdict
    /\ variant = "src"
    /\ max_retries = 1
    /\ auto_execute = FALSE
    /\ system_platform = "Linux"
    /\ pc = "shell"
    /\ prompt = ""
    /\ attempt = 0
    /\ calls = 0
    /\ all_failed = TRUE
    /\ sleeps = 0
    /\ gen_appends = 0
    /\ gen_saves = 0
    /\ last_resp = [kind |-> "none"]
    /\ ret = [tag |-> "not_called"]
    /\ command_history = << >>
    /\ history_file = [state |-> "absent", records |-> << >>]
    /\ shell = << >>
    /\ exec_ret = NotCalled
    /\ blocked = NotBlocked

\* main(), from parse_arguments to generator.run(): change_model and model are
\* the options of the command line (model is the default when --model is not
\* given), choice is what the user picks when select_model asks; an exception
\* of save_user_preferences ends main with "Initialization error" and
\* sys.exit(1)
Main(change_model, model, choice, outcome) ==
    /\ pc \in {"shell", "exited", "crashed"}
    /\ LET saved_model == SavedModel(config_file)
           selected == change_model \/ saved_model = "none"
           name == IF selected THEN choice
                   ELSE IF model # "" THEN model
                   ELSE saved_model
           saves == selected \/ model # ""
       IN  /\ launch' = [started |-> TRUE, change_model |-> change_model,
                         model |-> model, selected |-> selected]
           /\ IF saves
              THEN config_file' = SavedPreference(name, config_file, outcome)
              ELSE UNCHANGED config_file
           /\ IF saves /\ outcome # "ok"
              THEN model_name' = "none" /\ pc' = "exited"
              ELSE model_name' = name /\ pc' = "prompt"
    /\ UNCHANGED <<variant, max_retries, auto_execute, system_platform,
                   prompt, attempt, calls, all_failed, sleeps, gen_appends,
                   gen_saves, last_resp, ret, command_history, history_file,
                   shell, exec_ret, vcmd, verdict, blocked, available_ram_gb,
                   recommended>>

\* run(): the input "model" or "sibourguiba": select_model, then
\* save_user_preferences and self.model_name = new_model; an exception of the
\* save ends the loop in its except Exception branch
ChangeModel(choice, outcome) ==
    /\ pc = "prompt"
    /\ launch.started
    /\ config_file' = SavedPreference(choice, config_file, outcome)
    /\ IF outcome = "ok"
       THEN model_name' = choice /\ pc' = "prompt"
       ELSE pc' = "crashed" /\ UNCHANGED model_name
    /\ UNCHANGED <<variant, max_retries, auto_execute, system_platform,
                   prompt, attempt, calls, all_failed, sleeps, gen_appends,
                   gen_saves, last_resp, ret, command_history, history_file,
                   shell, exec_ret, vcmd, verdict, blocked, launch,
                   available_ram_gb, recommended>>

NextMain ==
    \/ \E change_model \in BOOLEAN,
          model \in {DefaultModel, "codegemma:2b", "llama3:8b", ""},
          choice \in ModelNames,
          outcome \in {"ok", "open_failed", "write_failed"} :
           Main(change_model, model, choice, outcome)
    \/ \E choice \in ModelNames, outcome \in {"ok", "open_failed", "write_failed"} :
           ChangeModel(choice, outcome)
    \/ Quit

SpecMain == InitMain /\ [][NextMain]_vars

\* the step is a start of main() without any option, after an earlier run, with
\* a model of the selection saved in CONFIG_FILE
LaterRunStarts ==
    /\ pc \in {"exited", "crashed"}
    /\ pc' = "prompt"
    /\ launch.started
    /\ ~launch'.change_model
    /\ launch'.model = DefaultModel
    /\ config_file.state = "written"
    /\ config_file.preferred_model \in ModelNames

\* C38 (as claimed): a run started without --change-model after a model was
\* selected and saved uses the saved model, does not ask for a selection and
\* leaves the saved preference as it is.
C38_SavedModelRemembered ==
    [][LaterRunStarts
           => /\ model_name' = config_file.preferred_model
              /\ ~launch'.selected
              /\ config_file' = config_file]_vars

====
